---- MODULE Spec2Model ----
(***************************************************************************)
(* Mood-journal backend: the account handlers (signup, login) and the mood *)
(* handlers (save, history) of src/app.js (variant A) and                  *)
(* src/unnamed/part_000 (variant B), over a store with the tables users,   *)
(* user1 and moods.                                                        *)
(*                                                                         *)
(* Emails, passwords and moods are atomic strings, "" standing for a       *)
(* missing (falsy) field.  The query-string parameters days and triggers   *)
(* and the trigger names are sequences of one-character strings, so that   *)
(* parseInt, split, trim and filter are modelled by what they do.          *)
(***************************************************************************)
EXTENDS Integers, Sequences, FiniteSets, TLC

VARIABLES variant, uniqueEmail, users, user1, sess, moods, now, ticks, req, resp, lastQuery

vars == <<variant, uniqueEmail, users, user1, sess, moods, now, ticks, req, resp, lastQuery>>

(* ------------------------------ bounds -------------------------------- *)
\* rows the store holds at most, over its three tables
MaxRows == 2
\* rows the store holds at most when the whole service runs together
MaxServiceRows == 1
\* times the clock advances
MaxTicks == 1

Clients == {1, 2}
Emails == {"a", "b"}
Passwords == {"p", "q"}
EmailInputs == Emails \cup {""}
PasswordInputs == Passwords \cup {""}

Work == <<"w">>
Sleep == <<"s">>
\* the query parameter days, "" (<<>>) when absent
DaysInputs ==
  { <<>>, <<"-", "1">>, <<"0">>, <<"1">>, <<"3", "6", "5">>, <<"3", "6", "6">>, <<"x">> }
\* the query parameter triggers, "" (<<>>) when absent
FilterInputs ==
  { <<>>, <<"w">>, <<"s">>, <<"w", ",", "s">>, <<" ", "s", " ", ",">>,
    <<",">>, <<" ", ",", " ">> }
\* the requests to POST /api/mood, the body field triggers being <<>> when omitted
\* and <<list>> when an array is sent: both owners, both moods and every trigger list
\* (omitted, empty, one trigger, two triggers, one trigger twice), and the requests
\* that lack the owner, the mood or both
SaveInputs ==
  { <<"a", "happy", <<>>>>, <<"a", "happy", << <<>> >> >>, <<"a", "happy", << <<Work>> >> >>,
    <<"a", "sad", << <<Work, Sleep>> >> >>, <<"a", "sad", << <<Work, Work>> >> >>,
    <<"b", "sad", << <<Work>> >> >>,
    <<"", "happy", <<>>>>, <<"a", "", << <<Work>> >> >>, <<"", "", <<>>>> }
\* the requests to GET /api/mood/history: owner a with the window 365 and every
\* filter, with the window 1 and a filter or none, and with every days and no
\* filter, and the requests that lack the owner
HistoryInputs ==
  ({"a"} \X {<<"3", "6", "5">>} \X FilterInputs)
    \cup ({"a"} \X {<<"1">>} \X {<<>>, <<"s">>})
    \cup ({"a"} \X DaysInputs \X {<<>>})
    \cup {<<"", <<"1">>, <<>>>>, <<"", <<>>, <<"w">>>>}
\* the clock advances by 365 days or by 366 days
TickSteps == {365, 366}

(* ------------------------------ helpers ------------------------------- *)
Range(f) == {f[i] : i \in DOMAIN f}

Digits == {"0", "1", "2", "3", "4", "5", "6", "7", "8", "9"}

DigitVal(c) ==
  CASE c = "0" -> 0 [] c = "1" -> 1 [] c = "2" -> 2 [] c = "3" -> 3 [] c = "4" -> 4
    [] c = "5" -> 5 [] c = "6" -> 6 [] c = "7" -> 7 [] c = "8" -> 8 [] c = "9" -> 9

RECURSIVE LTrim(_)
LTrim(str) == IF str # <<>> /\ Head(str) = " " THEN LTrim(Tail(str)) ELSE str

RECURSIVE RTrim(_)
RTrim(str) ==
  IF str # <<>> /\ str[Len(str)] = " " THEN RTrim(SubSeq(str, 1, Len(str) - 1)) ELSE str

\* String.prototype.trim
Trim(str) == RTrim(LTrim(str))

\* the digits parseInt consumes: the longest prefix of decimal digits
RECURSIVE DigitPrefix(_)
DigitPrefix(str) ==
  IF str # <<>> /\ Head(str) \in Digits THEN <<Head(str)>> \o DigitPrefix(Tail(str)) ELSE <<>>

RECURSIVE DigitsValue(_, _)
DigitsValue(ds, acc) ==
  IF ds = <<>> THEN acc ELSE DigitsValue(Tail(ds), 10 * acc + DigitVal(Head(ds)))

\* parseInt(days): leading blanks skipped, an optional sign, then decimal digits up
\* to the first other character; NaN when there is no digit
ParseInt(str) ==
  LET t == LTrim(str)
      neg == t # <<>> /\ Head(t) = "-"
      body == IF t # <<>> /\ Head(t) \in {"-", "+"} THEN Tail(t) ELSE t
      ds == DigitPrefix(body)
  IN  IF ds = <<>> THEN [nan |-> TRUE, val |-> 0]
      ELSE [nan |-> FALSE, val |-> IF neg THEN 0 - DigitsValue(ds, 0) ELSE DigitsValue(ds, 0)]

\* String.prototype.split(','): the pieces between the commas, empty ones included
RECURSIVE SplitComma(_, _)
SplitComma(str, cur) ==
  IF str = <<>> THEN <<cur>>
  ELSE IF Head(str) = "," THEN <<cur>> \o SplitComma(Tail(str), <<>>)
  ELSE SplitComma(Tail(str), Append(cur, Head(str)))

MapTrim(pieces) == [i \in DOMAIN pieces |-> Trim(pieces[i])]

NonEmpty(t) == Len(t) > 0

\* triggersArray of the history handler
TriggersArray(triggers) ==
  IF triggers # <<>> THEN SelectSeq(MapTrim(SplitComma(triggers, <<>>)), NonEmpty) ELSE <<>>

(* ------------------------------- store -------------------------------- *)
\* SELECT * FROM <table> WHERE email = $1
SelectByEmail(table, email) == {i \in DOMAIN table : table[i].email = email}

\* the table the signup handler inserts into and the login handler reads
AccountTable == IF variant = "A" THEN users ELSE user1

\* rows in the store, and rows reserved by signups awaiting their INSERT
RowsUsed ==
  Len(users) + Len(user1) + Len(moods) + Cardinality({c \in Clients : sess[c].pc = "checked"})

Idle == [pc |-> "idle", email |-> "", password |-> ""]

NoRows == <<>>
NoCounts == <<>>

\* the request a handler is serving: req.body of the POST routes, req.query of
\* the history route
AuthRequest(op, email, password) ==
  [op |-> op, email |-> email, password |-> password, mood |-> "", triggers |-> <<>>,
   days |-> <<>>, filter |-> <<>>]

SaveRequest(email, mood, triggers) ==
  [op |-> "save", email |-> email, password |-> "", mood |-> mood, triggers |-> triggers,
   days |-> <<>>, filter |-> <<>>]

HistoryRequest(email, days, triggers) ==
  [op |-> "history", email |-> email, password |-> "", mood |-> "", triggers |-> <<>>,
   days |-> days, filter |-> triggers]

Response(op, status, message) ==
  [op |-> op, status |-> status, message |-> message,
   moodHistory |-> NoRows, triggerCounts |-> NoCounts]

Init ==
  /\ variant \in {"A", "B"}
  /\ uniqueEmail \in BOOLEAN
  /\ users = <<>>
  /\ user1 = <<>>
  /\ sess = [c \in Clients |-> Idle]
  /\ moods = <<>>
  /\ now = 0
  /\ ticks = 0
  /\ req = AuthRequest("none", "", "")
  /\ resp = Response("none", 0, "")
  /\ lastQuery = "none"

(* ------------------------------- signup ------------------------------- *)
\* InsertUser with the store's constraint violation answered as a conflict
InsertUserConflict(email, password) ==
  IF SelectByEmail(AccountTable, email) # {}
  THEN /\ resp' = Response("signup", 400, "User already exists")
       /\ UNCHANGED <<users, user1>>
  ELSE /\ resp' = Response("signup", 201, "User registered successfully")
       /\ IF variant = "A"
          THEN users' = Append(users, [email |-> email, password |-> password])
               /\ UNCHANGED user1
          ELSE user1' = Append(user1, [email |-> email, password |-> password])
               /\ UNCHANGED users

\* the awaited INSERT of the signup handler: the row is appended, or the statement
\* throws when the account table has a unique constraint on email that it breaks
InsertUser(email, password) ==
  IF uniqueEmail /\ SelectByEmail(AccountTable, email) # {}
  THEN /\ resp' = Response("signup", 500, "Server error")
       /\ UNCHANGED <<users, user1>>
  ELSE /\ resp' = Response("signup", 201, "User registered successfully")
       /\ IF variant = "A"
          THEN users' = Append(users, [email |-> email, password |-> password])
               /\ UNCHANGED user1
          ELSE user1' = Append(user1, [email |-> email, password |-> password])
               /\ UNCHANGED users

\* existingUser of the signup handler: both variants read the table users
ExistingUser(email) == SelectByEmail(users, email)

InsertStatement == IF variant = "A" THEN "INSERT users" ELSE "INSERT user1"

\* POST /api/auth/signup up to the awaited existence check
Signup(c, email, password) ==
  /\ sess[c].pc = "idle"
  /\ req' = AuthRequest("signup", email, password)
  /\ IF email = "" \/ password = ""
     THEN /\ resp' = Response("signup", 400, "Email and password required")
          /\ lastQuery' = "none"
          /\ UNCHANGED sess
     ELSE /\ lastQuery' = "SELECT users"
          /\ IF ExistingUser(email) # {}
             THEN /\ resp' = Response("signup", 400, "User already exists")
                  /\ UNCHANGED sess
             ELSE /\ RowsUsed < MaxRows
                  /\ sess' = [sess EXCEPT ![c] =
                                [pc |-> "checked", email |-> email, password |-> password]]
                  /\ UNCHANGED resp
  /\ UNCHANGED <<variant, uniqueEmail, users, user1, moods, now, ticks>>

\* POST /api/auth/signup from the existence check's answer to the response
SignupInsert(c) ==
  /\ sess[c].pc = "checked"
  /\ req' = AuthRequest("signup", sess[c].email, sess[c].password)
  /\ InsertUser(sess[c].email, sess[c].password)
  /\ lastQuery' = InsertStatement
  /\ sess' = [sess EXCEPT ![c] = Idle]
  /\ UNCHANGED <<variant, uniqueEmail, moods, now, ticks>>

\* POST /api/auth/signup served with no other signup in flight
SignupAlone(email, password) ==
  /\ \A c \in Clients : sess[c].pc = "idle"
  /\ req' = AuthRequest("signup", email, password)
  /\ IF email = "" \/ password = ""
     THEN /\ resp' = Response("signup", 400, "Email and password required")
          /\ lastQuery' = "none"
          /\ UNCHANGED <<users, user1>>
     ELSE IF ExistingUser(email) # {}
          THEN /\ resp' = Response("signup", 400, "User already exists")
               /\ lastQuery' = "SELECT users"
               /\ UNCHANGED <<users, user1>>
          ELSE /\ RowsUsed < MaxRows
               /\ InsertUser(email, password)
               /\ lastQuery' = InsertStatement
  /\ UNCHANGED <<variant, uniqueEmail, sess, moods, now, ticks>>

(* -------------------------------- login ------------------------------- *)
\* Login with the password's presence left unchecked
LoginEmailOnly(email, password) ==
  /\ req' = AuthRequest("login", email, password)
  /\ IF email = ""
     THEN /\ resp' = Response("login", 400, "Email and password required")
          /\ lastQuery' = "none"
     ELSE /\ lastQuery' = IF variant = "A" THEN "SELECT users" ELSE "SELECT user1"
          /\ LET userRes == SelectByEmail(AccountTable, email)
             IN  IF userRes = {}
                 THEN resp' = Response("login", 400, "User not found. Please sign up first.")
                 ELSE \E i \in userRes :
                        LET user == AccountTable[i]
                        IN  IF user.password # password
                            THEN resp' = Response("login", 401, "Incorrect password")
                            ELSE resp' = Response("login", 200, "Login successful")
  /\ UNCHANGED <<variant, uniqueEmail, users, user1, sess, moods, now, ticks>>

\* POST /api/auth/login; rows[0] is any of the rows the SELECT matched, their
\* order being the store's choice
Login(email, password) ==
  /\ req' = AuthRequest("login", email, password)
  /\ IF email = "" \/ password = ""
     THEN /\ resp' = Response("login", 400, "Email and password required")
          /\ lastQuery' = "none"
     ELSE /\ lastQuery' = IF variant = "A" THEN "SELECT users" ELSE "SELECT user1"
          /\ LET userRes == SelectByEmail(AccountTable, email)
             IN  IF userRes = {}
                 THEN resp' = Response("login", 400, "User not found. Please sign up first.")
                 ELSE \E i \in userRes :
                        LET user == AccountTable[i]
                        IN  IF user.password # password
                            THEN resp' = Response("login", 401, "Incorrect password")
                            ELSE resp' = Response("login", 200, "Login successful")
  /\ UNCHANGED <<variant, uniqueEmail, users, user1, sess, moods, now, ticks>>

(* ------------------------------ save mood ----------------------------- *)
\* OrEmpty with the default taken whatever was sent
OrEmptyAlways(triggers) == <<>>

\* triggers || []
OrEmpty(triggers) == IF triggers = <<>> THEN <<>> ELSE triggers[1]

SavedMessage == IF variant = "A" THEN "Mood saved successfully" ELSE ""

\* the row INSERT INTO moods ... VALUES ($1, $2, $3, NOW()) writes
MoodRow(email, mood, triggers) ==
  [email |-> email, mood |-> mood, triggers |-> OrEmpty(triggers), created_at |-> now]

\* POST /api/mood
SaveMood(email, mood, triggers) ==
  /\ req' = SaveRequest(email, mood, triggers)
  /\ IF email = "" \/ mood = ""
     THEN /\ resp' = Response("save", 400, "Email and mood are required")
          /\ lastQuery' = "none"
          /\ UNCHANGED moods
     ELSE /\ RowsUsed < MaxRows
          /\ moods' = Append(moods, MoodRow(email, mood, triggers))
          /\ lastQuery' = "INSERT moods"
          /\ resp' = Response("save", 201, SavedMessage)
  /\ UNCHANGED <<variant, uniqueEmail, users, user1, sess, now, ticks>>

(* ----------------------------- mood history --------------------------- *)
\* InWindow with > for >=
InWindowStrict(created_at, daysInt) == created_at > now - daysInt

\* created_at >= NOW() - INTERVAL 'daysInt days', the clock counting days
InWindow(created_at, daysInt) == created_at >= now - daysInt

\* Overlap with @> (contains every element) for &&
OverlapAll(triggers, triggersArray) == Range(triggersArray) \subseteq Range(triggers)

\* triggers && $2::text[]: the arrays have an element in common
Overlap(triggers, triggersArray) == Range(triggers) \cap Range(triggersArray) # {}

\* the WHERE clause of the history query
Matches(row, email, daysInt, triggersArray) ==
  /\ row.email = email
  /\ InWindow(row.created_at, daysInt)
  /\ Len(triggersArray) > 0 => Overlap(row.triggers, triggersArray)

\* OrderByCreatedDesc with ASC for DESC
OrderByCreatedAsc(picked) ==
  { ord \in [1..Cardinality(picked) -> picked] :
      /\ \A i, j \in DOMAIN ord : i # j => ord[i] # ord[j]
      /\ \A i, j \in DOMAIN ord :
           i < j => moods[ord[i]].created_at <= moods[ord[j]].created_at }

\* ORDER BY created_at DESC over the rows picked: every order the store may
\* return them in, rows of equal created_at in either order
OrderByCreatedDesc(picked) ==
  { ord \in [1..Cardinality(picked) -> picked] :
      /\ \A i, j \in DOMAIN ord : i # j => ord[i] # ord[j]
      /\ \A i, j \in DOMAIN ord :
           i < j => moods[ord[i]].created_at >= moods[ord[j]].created_at }

\* SELECT mood, triggers, created_at
Project(ord) ==
  [i \in DOMAIN ord |->
     [mood |-> moods[ord[i]].mood, triggers |-> moods[ord[i]].triggers,
      created_at |-> moods[ord[i]].created_at]]

\* result.rows of the history query, one value per order the store may choose
QueryRows(email, daysInt, triggersArray) ==
  { Project(ord) :
      ord \in OrderByCreatedDesc(
                {i \in DOMAIN moods : Matches(moods[i], email, daysInt, triggersArray)}) }

\* triggerCounts[trigger] = (triggerCounts[trigger] || 0) + 1
Increment(counts, trigger) ==
  IF trigger \in DOMAIN counts
  THEN [counts EXCEPT ![trigger] = counts[trigger] + 1]
  ELSE [t \in DOMAIN counts \cup {trigger} |-> IF t = trigger THEN 1 ELSE counts[t]]

\* the inner forEach over one entry's triggers
RECURSIVE CountEntry(_, _)
CountEntry(counts, triggers) ==
  IF triggers = <<>> THEN counts
  ELSE CountEntry(Increment(counts, Head(triggers)), Tail(triggers))

\* the outer forEach over moodHistory
RECURSIVE TriggerCounts(_, _)
TriggerCounts(counts, moodHistory) ==
  IF moodHistory = <<>> THEN counts
  ELSE TriggerCounts(CountEntry(counts, Head(moodHistory).triggers), Tail(moodHistory))

\* InvalidDays with < 0 for <= 0
InvalidDaysZeroAllowed(daysInt) == daysInt.nan \/ daysInt.val < 0 \/ daysInt.val > 365

\* daysInt is rejected: isNaN(daysInt) || daysInt <= 0 || daysInt > 365
InvalidDays(daysInt) == daysInt.nan \/ daysInt.val <= 0 \/ daysInt.val > 365

\* what GET /api/mood/history answers and the statement it hands to the store, one
\* outcome per order the store may return the rows in
HistoryOutcomes(email, days, triggers) ==
  IF email = "" \/ days = <<>>
  THEN {[resp |-> Response("history", 400, "Missing email or days parameter"),
         query |-> "none"]}
  ELSE LET daysInt == ParseInt(days)
       IN  IF InvalidDays(daysInt)
           THEN {[resp |-> Response("history", 400,
                                    "Invalid days parameter. Must be between 1 and 365."),
                  query |-> "none"]}
           ELSE {[resp |-> [op |-> "history", status |-> 200, message |-> "",
                            moodHistory |-> moodHistory,
                            triggerCounts |-> TriggerCounts(NoCounts, moodHistory)],
                  query |-> "SELECT moods"] :
                   moodHistory \in QueryRows(email, daysInt.val, TriggersArray(triggers))}

\* GET /api/mood/history
History(email, days, triggers) ==
  /\ req' = HistoryRequest(email, days, triggers)
  /\ \E out \in HistoryOutcomes(email, days, triggers) :
       /\ resp' = out.resp
       /\ lastQuery' = out.query
  /\ UNCHANGED <<variant, uniqueEmail, users, user1, sess, moods, now, ticks>>

(* -------------------------------- clock ------------------------------- *)
\* NOW() of the store moves on
Tick(d) ==
  /\ ticks < MaxTicks
  /\ now' = now + d
  /\ ticks' = ticks + 1
  /\ UNCHANGED <<variant, uniqueEmail, users, user1, sess, moods, req, resp, lastQuery>>

(* --------------------------- specifications --------------------------- *)
WithinService == RowsUsed <= MaxServiceRows

ServiceSignup(email, password) == SignupAlone(email, password) /\ WithinService'

ServiceSaveMood(email, mood, triggers) == SaveMood(email, mood, triggers) /\ WithinService'

\* the whole service, each signup completing before the next request
Next ==
  \/ \E email \in EmailInputs, password \in PasswordInputs : ServiceSignup(email, password)
  \/ \E email \in EmailInputs, password \in PasswordInputs : Login(email, password)
  \/ \E in \in SaveInputs : ServiceSaveMood(in[1], in[2], in[3])
  \/ \E in \in HistoryInputs : History(in[1], in[2], in[3])
  \/ \E d \in TickSteps : Tick(d)

Spec == Init /\ [][Next]_vars

\* the account handlers, signups overlapping
NextAuth ==
  \/ \E c \in Clients, email \in EmailInputs, password \in PasswordInputs :
       Signup(c, email, password)
  \/ \E c \in Clients : SignupInsert(c)
  \/ \E email \in EmailInputs, password \in PasswordInputs : Login(email, password)

SpecAuth == Init /\ [][NextAuth]_vars

\* the account handlers, each signup completing before the next request
NextSeq ==
  \/ \E email \in EmailInputs, password \in PasswordInputs : SignupAlone(email, password)
  \/ \E email \in EmailInputs, password \in PasswordInputs : Login(email, password)

SpecSeq == Init /\ [][NextSeq]_vars

\* the mood handlers and the clock.  The accounts' uniqueness constraint plays no
\* part in them, and the two variants' mood handlers differ only in the text of the
\* save's 201 message, which Spec covers
InitMood == Init /\ variant = "A" /\ ~uniqueEmail

NextMood ==
  \/ \E in \in SaveInputs : SaveMood(in[1], in[2], in[3])
  \/ \E in \in HistoryInputs : History(in[1], in[2], in[3])
  \/ \E d \in TickSteps : Tick(d)

SpecMood == InitMood /\ [][NextMood]_vars

(* ------------------------------- claims ------------------------------- *)
\* the account records holding an email
Accounts(email) == {i \in DOMAIN AccountTable : AccountTable[i].email = email}

\* C1: a signup whose email already has an account record is answered 400 'User
\* already exists' whatever its password, and adds no record to the account store.
C1_DuplicateSignupRejected ==
  [][\A email \in Emails, password \in Passwords :
       (SignupAlone(email, password) /\ Accounts(email) # {})
         => /\ resp' = Response("signup", 400, "User already exists")
            /\ users' = users
            /\ user1' = user1]_vars

\* C2: login with non-empty email and password answers 400 exactly when no account
\* record has the email, 401 exactly when a record has the email and a different
\* password, and 200 exactly when the password is one the email was registered with.
C2_LoginOutcome ==
  [][\A email \in Emails, password \in Passwords :
       Login(email, password)
         => LET registered == {AccountTable[i].password : i \in Accounts(email)}
            IN  /\ resp'.status \in {200, 400, 401}
                /\ resp'.status = 400 <=> registered = {}
                /\ resp'.status = 401 <=> (registered # {} /\ password \notin registered)
                /\ resp'.status = 200 <=> password \in registered]_vars

\* the days parameters that denote an integer, with the integer
IntegerDays ==
  { [str |-> <<"-", "1">>, n |-> 0 - 1], [str |-> <<"0">>, n |-> 0], [str |-> <<"1">>, n |-> 1],
    [str |-> <<"3", "6", "5">>, n |-> 365], [str |-> <<"3", "6", "6">>, n |-> 366] }

WindowDays == {d \in IntegerDays : 1 <= d.n /\ d.n <= 365}

\* the trimmed non-empty tokens of a comma-delimited string: the pieces that hold
\* no comma, start and end with a non-blank, and are separated from the commas
\* around them (or the string's ends) by blanks only
Tokens(raw) ==
  { SubSeq(raw, p[1], p[2]) :
      p \in { q \in (1..Len(raw)) \X (1..Len(raw)) :
                /\ q[1] <= q[2]
                /\ \A k \in q[1]..q[2] : raw[k] # ","
                /\ raw[q[1]] # " " /\ raw[q[2]] # " "
                /\ \E l \in 0..(q[1] - 1) :
                     /\ l = 0 \/ raw[l] = ","
                     /\ \A k \in (l + 1)..(q[1] - 1) : raw[k] = " "
                /\ \E r \in (q[2] + 1)..(Len(raw) + 1) :
                     /\ r = Len(raw) + 1 \/ raw[r] = ","
                     /\ \A k \in (q[2] + 1)..(r - 1) : raw[k] = " " } }

\* the stored entries an owner's history query is to return: the owner's entries
\* created within the last n days that the filter lets through
Expected(email, n, filter) ==
  { k \in DOMAIN moods :
      /\ moods[k].email = email
      /\ now - n <= moods[k].created_at /\ moods[k].created_at <= now
      /\ filter = {} \/ (\E x \in filter : \E i \in DOMAIN moods[k].triggers :
                                           moods[k].triggers[i] = x) }

\* the tokens of each filter the history requests carry
FilterTokens == [raw \in FilterInputs |-> Tokens(raw)]

\* the rows are the entries of the index set, each once, less the owner
SameEntries(rows, picked) ==
  /\ Len(rows) = Cardinality(picked)
  /\ \A k \in picked :
       LET row == [mood |-> moods[k].mood, triggers |-> moods[k].triggers,
                   created_at |-> moods[k].created_at]
       IN  Cardinality({i \in DOMAIN rows : rows[i] = row})
             = Cardinality({j \in picked :
                              /\ moods[j].mood = row.mood
                              /\ moods[j].triggers = row.triggers
                              /\ moods[j].created_at = row.created_at})

\* this step is the history handler serving the request req': no other step leaves
\* a history request in req without moving the clock
HistoryStep == req'.op = "history" /\ now' = now

\* the state holds the history request last served and its 200 answer
HistoryOk == req.op = "history" /\ resp.op = "history" /\ resp.status = 200

\* C3: when a successful save (triggers omitted or any list) is followed by a
\* history query of the same owner with no trigger filter and a valid window that
\* reaches back to the save, the answer holds an entry with the saved mood and, as
\* a set, the saved triggers.
C3_SaveThenHistory ==
  [][\A d \in WindowDays :
       ( /\ req.op = "save" /\ resp.op = "save" /\ resp.status = 201
         /\ HistoryStep
         /\ req'.email = req.email /\ req'.filter = <<>> /\ req'.days = d.str
         /\ now - moods[Len(moods)].created_at <= d.n )
         => /\ resp'.status = 200
            /\ \E i \in DOMAIN resp'.moodHistory :
                 /\ resp'.moodHistory[i].mood = req.mood
                 /\ Range(resp'.moodHistory[i].triggers)
                      = (IF req.triggers = <<>> THEN {} ELSE Range(req.triggers[1]))]_vars

\* a save with mood sad and triggers work and sleep, and at the same instant a
\* history answer with window 1 and no filter that holds the saved entry
C3_Witness ==
  /\ HistoryOk
  /\ req.days = <<"1">> /\ req.filter = <<>>
  /\ Len(moods) = 1 /\ moods[1].email = req.email /\ moods[1].created_at = now
  /\ Len(resp.moodHistory) = 1
  /\ resp.moodHistory[1].mood = "sad"
  /\ resp.moodHistory[1].triggers = <<Work, Sleep>>

\* C4: the frequency table of a history answer maps each trigger to the number of
\* returned entries whose triggers contain it, and has no other key.
C4_CountsAreEntryCounts ==
  (resp.op = "history" /\ resp.status = 200) =>
    /\ DOMAIN resp.triggerCounts
         = UNION {Range(resp.moodHistory[i].triggers) : i \in DOMAIN resp.moodHistory}
    /\ \A x \in DOMAIN resp.triggerCounts :
         resp.triggerCounts[x]
           = Cardinality({i \in DOMAIN resp.moodHistory :
                            x \in Range(resp.moodHistory[i].triggers)})

\* C5: a history query returns exactly the owner's entries inside the window whose
\* triggers share an element with the filter's tokens, or all of them when the
\* filter is absent or holds no token; an entry without triggers is not returned
\* under a filter that holds a token.
C5_FilterIsOverlap ==
  [][\A d \in WindowDays :
       (HistoryStep /\ req'.email # "" /\ req'.days = d.str)
         => /\ resp'.status = 200
            /\ SameEntries(resp'.moodHistory,
                           Expected(req'.email, d.n, FilterTokens[req'.filter]))
            /\ FilterTokens[req'.filter] # {}
                 => \A i \in DOMAIN resp'.moodHistory : resp'.moodHistory[i].triggers # <<>>]_vars

\* owner a has an entry with trigger work and an entry with triggers work and
\* sleep, both in the window; the filter " s ," returns only the second
C5_Witness ==
  /\ HistoryOk
  /\ req.filter = <<" ", "s", " ", ",">>
  /\ Len(moods) = 2
  /\ moods[1].email = req.email /\ moods[2].email = req.email
  /\ moods[1].created_at = now /\ moods[2].created_at = now
  /\ moods[1].triggers = <<Work>> /\ moods[2].triggers = <<Work, Sleep>>
  /\ Len(resp.moodHistory) = 1
  /\ resp.moodHistory[1].triggers = <<Work, Sleep>>

\* C6: with an owner, a history query whose days is an integer outside 1..365 is
\* answered 400, and one whose days is an integer in 1..365 goes on to the store.
C6_DaysRange ==
  [][\A d \in IntegerDays :
       (HistoryStep /\ req'.email # "" /\ req'.days = d.str)
         => IF 1 <= d.n /\ d.n <= 365
            THEN resp'.status = 200 /\ lastQuery' = "SELECT moods"
            ELSE /\ resp' = Response("history", 400,
                                     "Invalid days parameter. Must be between 1 and 365.")
                 /\ lastQuery' = "none"]_vars

\* the owner has an entry saved 365 days ago and one saved now; the query with days
\* 365 is answered with both
C6_Witness ==
  /\ HistoryOk
  /\ req.days = <<"3", "6", "5">>
  /\ Len(moods) = 2
  /\ moods[1].email = req.email /\ moods[2].email = req.email
  /\ moods[1].created_at = now - 365 /\ moods[2].created_at = now
  /\ Len(resp.moodHistory) = 2
  /\ resp.moodHistory[1].created_at = now
  /\ resp.moodHistory[2].created_at = now - 365

\* C7: every entry a history query with window n returns was created between
\* now - n days and now, and every entry of the owner created in that range that
\* passes the trigger filter is returned.
C7_WindowExact ==
  [][\A d \in WindowDays :
       (HistoryStep /\ req'.email # "" /\ req'.days = d.str)
         => /\ \A i \in DOMAIN resp'.moodHistory :
                 /\ now - d.n <= resp'.moodHistory[i].created_at
                 /\ resp'.moodHistory[i].created_at <= now
            /\ \A k \in Expected(req'.email, d.n, FilterTokens[req'.filter]) :
                 \E i \in DOMAIN resp'.moodHistory :
                   /\ resp'.moodHistory[i].mood = moods[k].mood
                   /\ resp'.moodHistory[i].triggers = moods[k].triggers
                   /\ resp'.moodHistory[i].created_at = moods[k].created_at]_vars

\* the owner has an entry saved 366 days ago and one saved now; the query with
\* window 365 and no filter returns only the one saved now
C7_Witness ==
  /\ HistoryOk
  /\ req.days = <<"3", "6", "5">> /\ req.filter = <<>>
  /\ Len(moods) = 2
  /\ moods[1].email = req.email /\ moods[2].email = req.email
  /\ moods[1].created_at = now - 366 /\ moods[2].created_at = now
  /\ Len(resp.moodHistory) = 1
  /\ resp.moodHistory[1].created_at = now

\* C8: the entries of a history answer are in descending order of created timestamp.
C8_NewestFirst ==
  (resp.op = "history" /\ resp.status = 200) =>
    \A i \in DOMAIN resp.moodHistory :
      i + 1 \in DOMAIN resp.moodHistory
        => resp.moodHistory[i].created_at >= resp.moodHistory[i + 1].created_at

\* a history answer of two entries, the one saved later first
C8_Witness ==
  /\ HistoryOk
  /\ Len(resp.moodHistory) = 2
  /\ resp.moodHistory[1].created_at > resp.moodHistory[2].created_at

\* the request lacks a required field, or its days is an integer outside 1..365
InvalidInput(r) ==
  \/ r.op \in {"signup", "login"} /\ (r.email = "" \/ r.password = "")
  \/ r.op = "save" /\ (r.email = "" \/ r.mood = "")
  \/ r.op = "history"
       /\ \/ r.email = ""
          \/ r.days = <<>>
          \/ \E d \in IntegerDays : d.str = r.days /\ (d.n < 1 \/ d.n > 365)

\* C9: a signup, login, save or history request that lacks a required field, or a
\* history request whose days is outside 1..365, is answered 400 with no statement
\* handed to the store and both stores unchanged.
C9_InvalidInputBeforeStore ==
  [][(now' = now /\ InvalidInput(req'))
       => /\ resp'.status = 400
          /\ resp'.op = req'.op
          /\ lastQuery' = "none"
          /\ users' = users /\ user1' = user1 /\ moods' = moods]_vars

\* a history request with days 0 answered 400 with no statement issued, the entry
\* store holding an entry of that owner
C9_Witness ==
  /\ req.op = "history" /\ req.days = <<"0">>
  /\ resp.op = "history" /\ resp.status = 400
  /\ lastQuery = "none"
  /\ Len(moods) = 1 /\ moods[1].email = req.email

\* C10: two signups of one unregistered email can both pass the existence check
\* before either inserts; each insert then either adds a record and is answered
\* 201, so that the email ends with two records, or, when the store enforces
\* uniqueness and the email already has a record, fails and is answered 500, never
\* 400.
C10_OverlappingSignups ==
  [][\A c \in Clients :
       (sess[c].pc = "checked" /\ sess'[c].pc = "idle")
         => LET email == sess[c].email
                held == Cardinality(Accounts(email))
                after == Cardinality({i \in DOMAIN AccountTable' :
                                        AccountTable'[i].email = email})
            IN  IF uniqueEmail /\ held > 0
                THEN resp' = Response("signup", 500, "Server error") /\ after = held
                ELSE /\ resp' = Response("signup", 201, "User registered successfully")
                     /\ after = held + 1]_vars

\* variant A without a uniqueness constraint: the second of two overlapping signups
\* has been answered 201 and the table users holds two records of the email
C10_Witness ==
  /\ variant = "A" /\ ~uniqueEmail
  /\ req.op = "signup" /\ resp.op = "signup" /\ resp.status = 201
  /\ Len(users) = 2
  /\ users[1].email = req.email /\ users[2].email = req.email

\* C11: when signups are served one after another, the account table that login
\* reads never holds two records with the same email, in either variant.
C11_AccountEmailsUnique ==
  \A i, j \in DOMAIN AccountTable :
    AccountTable[i].email = AccountTable[j].email => i = j

\* the other half of C11: the account table changes only by a signup answered 201
\* appending one record; no record is ever updated or deleted
C11_AccountsAppendOnly ==
  [][AccountTable' # AccountTable
       => /\ req'.op = "signup"
          /\ resp' = Response("signup", 201, "User registered successfully")
          /\ Len(AccountTable') = Len(AccountTable) + 1
          /\ SubSeq(AccountTable', 1, Len(AccountTable)) = AccountTable
          /\ AccountTable'[Len(AccountTable')] =
               [email |-> req'.email, password |-> req'.password]]_vars

====
